---- MODULE Spec2Model ----
(***************************************************************************)
(* CodeForge: task state machine, worker pool, executor pipeline, the API  *)
(* handlers that act on a task (create, instruct, cancel, create-pr) and   *)
(* the store they share.                                                   *)
(*                                                                         *)
(* Every store round trip of the code is one step of the process that      *)
(* makes it, so that the interleavings of workers and request handlers on  *)
(* the shared store are the ones of the program.  A pipeline (pipe.Exec)   *)
(* is one step.  A store call made on a context that is already done       *)
(* fails without effect (go-redis returns ctx.Err() before sending).       *)
(***************************************************************************)
EXTENDS Integers, Sequences, FiniteSets, TLC

\* ---------------------------------------------------------------- bounds
MaxTasks == 1
NumWorkers == 2
NumClients == 2
MaxIter == 2
\* Tasks created beyond MaxTasks where the order of the queue is examined.
MoreTasks == 1

Ids == 1..(MaxTasks + MoreTasks)
Workers == 1..NumWorkers
Clients == (NumWorkers + 1)..(NumWorkers + NumClients)
Procs == Workers \cup Clients
NoId == 0
NoWorker == 0

\* ---------------------------------------------------------------- statuses
StatusNone == "none"
StatusPending == "pending"
StatusCloning == "cloning"
StatusRunning == "running"
StatusCompleted == "completed"
StatusFailed == "failed"
StatusAwaitingInstruction == "awaiting_instruction"
StatusCreatingPR == "creating_pr"
StatusPRCreated == "pr_created"

ValidStatuses ==
  { StatusPending, StatusCloning, StatusRunning, StatusCompleted, StatusFailed,
    StatusAwaitingInstruction, StatusCreatingPR, StatusPRCreated }

validTransitions ==
  [ s \in ValidStatuses |->
      CASE s = StatusPending -> << StatusCloning, StatusFailed >>
        [] s = StatusCloning -> << StatusRunning, StatusFailed >>
        [] s = StatusRunning -> << StatusCompleted, StatusFailed >>
        [] s = StatusCompleted -> << StatusAwaitingInstruction, StatusCreatingPR >>
        [] s = StatusFailed -> << >>
        [] s = StatusAwaitingInstruction -> << StatusRunning, StatusFailed >>
        [] s = StatusCreatingPR -> << StatusPRCreated, StatusFailed >>
        [] s = StatusPRCreated -> << StatusAwaitingInstruction, StatusCompleted >> ]

\* ValidateTransition without the search of the list: any transition out of a
\* known status is accepted.
ValidateTransitionKnownOnly(current, next) ==
  current \in DOMAIN validTransitions

\* TRUE iff the code returns nil: the status is known and next is in its list.
ValidateTransition(current, next) ==
  /\ current \in DOMAIN validTransitions
  /\ \E i \in 1..Len(validTransitions[current]) : validTransitions[current][i] = next

IsTerminal(s) == s = StatusFailed

IsFinished(s) == s = StatusCompleted \/ s = StatusFailed \/ s = StatusPRCreated

\* ---------------------------------------------------------------- state
VARIABLES
  task,        \* id -> state hash: status, iteration, error, ttl, changes, pr
  result,      \* id -> result blob: [set, ttl, iteration it is the output of]
  iterations,  \* id -> list of iteration records [number, status]
  history,     \* id -> history list of event names
  historyTTL,  \* id -> history list carries a TTL
  doneSig,     \* id -> statuses published on the done channel
  queue,       \* the FIFO queue of task ids
  workspace,   \* id -> workspace directory exists
  nextId,      \* number of ids minted so far
  pc,          \* process -> position in its code
  us,          \* process -> the UpdateStatus call in progress or last made
  wt,          \* worker -> the task snapshot loaded by Get: [id, status, iteration]
               \* and whether Execute found the workspace to reuse
  wfail,       \* worker -> failTask arguments: [msg, ctx]
  cancelAt,    \* worker -> stored status of the task when Pool.Cancel fired the
               \* cancel func of the execution in progress, StatusNone if it has not
  deadline,    \* worker -> the deadline of the executor's child context fired
  stopped,     \* the pool context has been cancelled (Stop)
  cancels,     \* id -> worker whose cancel func is registered, or NoWorker
  activeCount, \* the pool's active-worker counter
  creq,        \* client -> request in progress: [op, gone, id, iteration, resp];
               \* gone: the request context is done
  bp,          \* a call of buildPrompt: [t, iterations, err, out]
  hooks,       \* id -> [url: whether the task has a callback URL,
               \*        sends: the calls of webhook.Send made for it, each with the
               \*        iteration, the payload status, the status stored when the
               \*        call was made and whether its context was still live]
  rl,          \* the rate limiter: [now, zset, expireAt, admitted, reqs]
  cli,         \* a call of ClaudeRunner.Run: [lines, pos, resultText, lastAssistantText, phase, exit, output, err]
  cleaner,     \* the workspace cleaner: [pc, id], the workspace it is about to delete
  wh,          \* a call of Sender.Send: [maxRetries, attempt, wait, sent, delays,
               \* last, ctxDone, res]
  sse          \* the SSE request: [pc, id, status, sub, ch, got, end, subAt,
               \* replayed, named, keepalive]: the status Get returned, the
               \* subscription and its pending messages, the data events
               \* written, how the handler ended, the length of the history
               \* when the subscription was made, the number of data events
               \* that came from the replay, the named events written (each
               \* with the number of data events written before it) and
               \* whether a keepalive was written

vars == << task, result, iterations, history, sse, historyTTL, doneSig, queue,
           workspace, nextId, pc, us, wt, wfail, cancelAt, deadline, stopped, bp, wh, cleaner, cli, rl, hooks,
           cancels, activeCount, creq >>

NoTask == [ status |-> StatusNone, iteration |-> 0, error |-> "", ttl |-> FALSE,
            changes |-> FALSE, pr |-> FALSE ]
NoCall == [ id |-> NoId, next |-> StatusNone, ctx |-> "bg", ok |-> "", err |-> "",
            cur |-> StatusNone, res |-> "none" ]
NoSnapshot == [ id |-> NoId, status |-> StatusNone, iteration |-> 0, reuse |-> FALSE ]
NoFail == [ msg |-> "", ctx |-> "bg" ]
NoRequest == [ op |-> "none", gone |-> FALSE, id |-> NoId, iteration |-> 0, resp |-> "none" ]
NoPrompt == [ header |-> FALSE, entries |-> << >>, truncated |-> FALSE, chars |-> 0,
              instruction |-> "" ]
NoBuild == [ t |-> [ iteration |-> 0, prompt |-> "", current_prompt |-> "" ],
             iterations |-> << >>, err |-> FALSE, out |-> NoPrompt ]

\* The store is empty, the workers wait on the queue, no request is in progress.
Idle ==
  /\ task = [ i \in Ids |-> NoTask ]
  /\ result = [ i \in Ids |-> [ set |-> FALSE, ttl |-> FALSE, iteration |-> 0 ] ]
  /\ iterations = [ i \in Ids |-> << >> ]
  /\ history = [ i \in Ids |-> << >> ]
  /\ historyTTL = [ i \in Ids |-> FALSE ]
  /\ doneSig = [ i \in Ids |-> << >> ]
  /\ queue = << >>
  /\ workspace = [ i \in Ids |-> FALSE ]
  /\ nextId = 0
  /\ pc = [ p \in Procs |-> IF p \in Workers THEN "pop" ELSE "idle" ]
  /\ us = [ p \in Procs |-> NoCall ]
  /\ wt = [ w \in Workers |-> NoSnapshot ]
  /\ wfail = [ w \in Workers |-> NoFail ]
  /\ cancelAt = [ w \in Workers |-> StatusNone ]
  /\ deadline = [ w \in Workers |-> FALSE ]
  /\ stopped = FALSE
  /\ cancels = [ i \in Ids |-> NoWorker ]
  /\ activeCount = 0
  /\ creq = [ c \in Clients |-> NoRequest ]

NoStream == [ pc |-> "idle", id |-> NoId, status |-> StatusNone, sub |-> FALSE,
              ch |-> << >>, got |-> << >>, end |-> "", subAt |-> -1, replayed |-> 0,
              named |-> << >>, keepalive |-> FALSE ]

NoSend == [ maxRetries |-> 0, attempt |-> 0, wait |-> FALSE, sent |-> 0,
            delays |-> << >>, last |-> "", ctxDone |-> FALSE, res |-> "none" ]

NoSweep == [ pc |-> "idle", id |-> NoId ]

NoRun == [ lines |-> << >>, pos |-> 0, resultText |-> << >>, lastAssistantText |-> << >>,
           phase |-> "none", exit |-> 0, output |-> << >>, err |-> FALSE ]

NoLimit == [ now |-> 0, zset |-> {}, expireAt |-> -1, admitted |-> << >>,
             reqs |-> << >> ]

NoHooks == [ i \in Ids |-> [ url |-> FALSE, sends |-> << >> ] ]

Init == Idle /\ bp = NoBuild /\ sse = NoStream /\ wh = NoSend /\ hooks = NoHooks /\ cleaner = NoSweep /\ cli = NoRun /\ rl = NoLimit

\* ---------------------------------------------------------------- contexts
\* "inner": the executor's deadline-bound child context (taskCtx);
\* "outer": the task-scoped context the worker passes to Execute (ctx);
\* "bg": context.Background(); "req": the context of an HTTP request, done
\* when the client has gone or the 60 s of the Timeout middleware are over.
Cancelled(w) == cancelAt[w] # StatusNone

CtxDone(p, kind) ==
  CASE kind = "inner" -> deadline[p] \/ Cancelled(p) \/ stopped
    [] kind = "outer" -> Cancelled(p) \/ stopped
    [] kind = "req" -> creq[p].gone
    [] OTHER -> FALSE


\* ---------------------------------------------------------------- helpers
Goto(p, l) == pc' = [ pc EXCEPT ![p] = l ]

\* The UpdateStatus call a step ends with: the call's first round trip is the
\* process's next step.
Call(p, id, next, ctx, ok, err) ==
  /\ us' = [ us EXCEPT ![p] = [ id |-> id, next |-> next, ctx |-> ctx, ok |-> ok,
                                err |-> err, cur |-> StatusNone, res |-> "none" ] ]
  /\ Goto(p, "us_read")

\* Streamer.Emit with the message put in front of the subscriber's pending ones.
PublishAtHead(p, ctx, id, ev) ==
  IF CtxDone(p, ctx) \/ ~sse.sub \/ sse.id # id
  THEN sse
  ELSE [ sse EXCEPT !.ch = << ev >> \o @ ]

\* Streamer.Emit: Publish on the live channel, which reaches the subscription
\* of the SSE request if there is one; no effect on a context that is done.
Publish(p, ctx, id, ev) ==
  IF CtxDone(p, ctx) \/ ~sse.sub \/ sse.id # id
  THEN sse
  ELSE [ sse EXCEPT !.ch = Append(@, ev) ]

\* Streamer.Emit with LPush in the place of RPush.
EmitAtHead(p, ctx, id, ev) ==
  IF CtxDone(p, ctx) THEN history ELSE [ history EXCEPT ![id] = << ev >> \o @ ]

\* Streamer.Emit: append to the history list (the publish on the live channel
\* is in the same pipeline); no effect on a context that is done.
Emit(p, ctx, id, ev) ==
  IF CtxDone(p, ctx) THEN history ELSE [ history EXCEPT ![id] = Append(@, ev) ]

\* ---------------------------------------------------------------- task service
\* Service.UpdateStatus, first round trip: HGet status, then ValidateTransition.
UpdateStatusRead(p) ==
  /\ pc[p] = "us_read"
  /\ LET c == us[p]
         cur == task[c.id].status
     IN IF CtxDone(p, c.ctx)
        THEN /\ us' = [ us EXCEPT ![p].res = "store_error" ]
             /\ Goto(p, c.err)
        ELSE IF cur = StatusNone
        THEN /\ us' = [ us EXCEPT ![p].res = "not_found" ]
             /\ Goto(p, c.err)
        ELSE IF ~ValidateTransition(cur, c.next)
        THEN /\ us' = [ us EXCEPT ![p].cur = cur, ![p].res = "invalid_transition" ]
             /\ Goto(p, c.err)
        ELSE /\ us' = [ us EXCEPT ![p].cur = cur ]
             /\ Goto(p, "us_write")
  /\ UNCHANGED << task, result, iterations, history, sse, historyTTL, doneSig, queue,
                  workspace, nextId, wt, wfail, cancelAt, deadline, stopped, bp, wh, cleaner, cli, rl, hooks,
                  cancels, activeCount, creq >>

\* Service.UpdateStatus, second round trip: the pipeline HSet status (+ Expire
\* when the new status is finished).
UpdateStatusWrite(p) ==
  /\ pc[p] = "us_write"
  /\ LET c == us[p]
     IN IF CtxDone(p, c.ctx)
        THEN /\ us' = [ us EXCEPT ![p].res = "store_error" ]
             /\ Goto(p, c.err)
             /\ UNCHANGED task
        ELSE /\ task' = [ task EXCEPT ![c.id].status = c.next,
                                      ![c.id].ttl = IF IsFinished(c.next) THEN TRUE ELSE @ ]
             /\ us' = [ us EXCEPT ![p].res = "ok" ]
             /\ Goto(p, c.ok)
  /\ UNCHANGED << result, iterations, history, sse, historyTTL, doneSig, queue,
                  workspace, nextId, wt, wfail, cancelAt, deadline, stopped, bp, wh, cleaner, cli, rl, hooks,
                  cancels, activeCount, creq >>

\* Create without the HSet of the pipeline: the id is pushed, no hash written.
CreatePushOnly ==
  /\ nextId < MaxTasks
  /\ queue' = Append(queue, nextId + 1)
  /\ nextId' = nextId + 1
  /\ UNCHANGED << task, result, iterations, history, sse, historyTTL, doneSig, workspace,
                  pc, us, wt, wfail, cancelAt, deadline, stopped, bp, wh, cleaner, cli, rl, hooks, cancels,
                  activeCount, creq >>

\* Service.Create (called by TaskHandler.Create): mint an id, write the hash
\* and push the id in one pipeline.
Create ==
  /\ nextId < MaxTasks
  /\ LET id == nextId + 1
     IN /\ task' = [ task EXCEPT ![id] = [ status |-> StatusPending, iteration |-> 1,
                                           error |-> "", ttl |-> FALSE,
                                           changes |-> FALSE, pr |-> FALSE ] ]
        /\ queue' = Append(queue, id)
        /\ nextId' = id
  /\ UNCHANGED << result, iterations, history, sse, historyTTL, doneSig, workspace, pc, us,
                  wt, wfail, cancelAt, deadline, stopped, bp, wh, cleaner, cli, rl, hooks, cancels, activeCount,
                  creq >>

\* Service.Create of a task whose request names a callback URL.
CreateWithCallback ==
  /\ nextId < MaxTasks
  /\ LET id == nextId + 1
     IN /\ task' = [ task EXCEPT ![id] = [ status |-> StatusPending, iteration |-> 1,
                                           error |-> "", ttl |-> FALSE,
                                           changes |-> FALSE, pr |-> FALSE ] ]
        /\ hooks' = [ hooks EXCEPT ![id].url = TRUE ]
        /\ queue' = Append(queue, id)
        /\ nextId' = id
  /\ UNCHANGED << result, iterations, history, sse, historyTTL, doneSig, workspace, pc, us,
                  wt, wfail, cancelAt, deadline, stopped, bp, wh, cleaner, cli, rl, cancels, activeCount,
                  creq >>

\* Service.Create for the tasks beyond MaxTasks.
CreateMore ==
  /\ nextId >= MaxTasks
  /\ nextId < MaxTasks + MoreTasks
  /\ LET id == nextId + 1
     IN /\ task' = [ task EXCEPT ![id] = [ status |-> StatusPending, iteration |-> 1,
                                           error |-> "", ttl |-> FALSE,
                                           changes |-> FALSE, pr |-> FALSE ] ]
        /\ queue' = Append(queue, id)
        /\ nextId' = id
  /\ UNCHANGED << result, iterations, history, sse, historyTTL, doneSig, workspace, pc, us,
                  wt, wfail, cancelAt, deadline, stopped, bp, wh, cleaner, cli, rl, hooks, cancels, activeCount,
                  creq >>

\* ---------------------------------------------------------------- worker pool
\* The workers are interchangeable: of the workers blocked in BLPOP, the one
\* the store serves is taken to be the one with the least index.
FirstIdle(w) == \A v \in Workers : pc[v] = "pop" => w <= v

\* Pool.worker popping at the tail of the list (BRPOP).
BRPop(w) ==
  /\ pc[w] = "pop"
  /\ FirstIdle(w)
  /\ ~stopped
  /\ queue # << >>
  /\ wt' = [ wt EXCEPT ![w] = [ NoSnapshot EXCEPT !.id = queue[Len(queue)] ] ]
  /\ queue' = SubSeq(queue, 1, Len(queue) - 1)
  /\ activeCount' = activeCount + 1
  /\ Goto(w, "load")
  /\ UNCHANGED << task, result, iterations, history, sse, historyTTL, doneSig, workspace,
                  nextId, us, wfail, cancelAt, deadline, stopped, bp, wh, cleaner, cli, rl, hooks, cancels, creq >>

\* Pool.worker: BLPOP returned an id.
BLPop(w) ==
  /\ pc[w] = "pop"
  /\ FirstIdle(w)
  /\ ~stopped
  /\ queue # << >>
  /\ wt' = [ wt EXCEPT ![w] = [ NoSnapshot EXCEPT !.id = Head(queue) ] ]
  /\ queue' = Tail(queue)
  /\ activeCount' = activeCount + 1
  /\ Goto(w, "load")
  /\ UNCHANGED << task, result, iterations, history, sse, historyTTL, doneSig, workspace,
                  nextId, us, wfail, cancelAt, deadline, stopped, bp, wh, cleaner, cli, rl, hooks, cancels, creq >>

\* Pool.worker: BLPOP failed and ctx.Err() != nil: the worker returns.
WorkerShutdown(w) ==
  /\ pc[w] = "pop"
  /\ stopped
  /\ Goto(w, "exit")
  /\ UNCHANGED << task, result, iterations, history, sse, historyTTL, doneSig, queue,
                  workspace, nextId, us, wt, wfail, cancelAt, deadline, stopped, bp, wh, cleaner, cli, rl, hooks,
                  cancels, activeCount, creq >>

\* Pool.worker with a retry: an id whose Get failed is pushed back.
LoadRetry(w) ==
  /\ pc[w] = "load"
  /\ LET id == wt[w].id
     IN IF stopped \/ task[id].status = StatusNone
        THEN /\ activeCount' = activeCount - 1
             /\ wt' = [ wt EXCEPT ![w] = NoSnapshot ]
             /\ Goto(w, "pop")
             /\ queue' = Append(queue, id)
             /\ UNCHANGED << cancels, cancelAt, deadline >>
        ELSE /\ wt' = [ wt EXCEPT ![w] = [ id |-> id, status |-> task[id].status,
                                           iteration |-> task[id].iteration,
                                           reuse |-> FALSE ] ]
             /\ cancels' = [ cancels EXCEPT ![id] = w ]
             /\ cancelAt' = [ cancelAt EXCEPT ![w] = StatusNone ]
             /\ deadline' = [ deadline EXCEPT ![w] = FALSE ]
             /\ Goto(w, "exec")
             /\ UNCHANGED << activeCount, queue >>
  /\ UNCHANGED << task, result, iterations, history, sse, historyTTL, doneSig,
                  workspace, nextId, us, wfail, stopped, bp, wh, cleaner, cli, rl, hooks, creq >>

\* Pool.worker: taskService.Get, then the cancel func is registered and the
\* executor entered; a failed Get skips the id.
Load(w) ==
  /\ pc[w] = "load"
  /\ LET id == wt[w].id
     IN IF stopped \/ task[id].status = StatusNone
        THEN /\ activeCount' = activeCount - 1
             /\ wt' = [ wt EXCEPT ![w] = NoSnapshot ]
             /\ Goto(w, "pop")
             /\ UNCHANGED << cancels, cancelAt, deadline >>
        ELSE /\ wt' = [ wt EXCEPT ![w] = [ id |-> id, status |-> task[id].status,
                                           iteration |-> task[id].iteration,
                                           reuse |-> FALSE ] ]
             /\ cancels' = [ cancels EXCEPT ![id] = w ]
             /\ cancelAt' = [ cancelAt EXCEPT ![w] = StatusNone ]
             /\ deadline' = [ deadline EXCEPT ![w] = FALSE ]
             /\ Goto(w, "exec")
             /\ UNCHANGED activeCount
  /\ UNCHANGED << task, result, iterations, history, sse, historyTTL, doneSig, queue,
                  workspace, nextId, us, wfail, stopped, bp, wh, cleaner, cli, rl, hooks, creq >>

\* Pool.worker after Execute returned: deregister the cancel func.
Deregister(w) ==
  /\ pc[w] = "dereg"
  /\ cancels' = [ cancels EXCEPT ![wt[w].id] = NoWorker ]
  /\ activeCount' = activeCount - 1
  /\ wt' = [ wt EXCEPT ![w] = NoSnapshot ]
  /\ wfail' = [ wfail EXCEPT ![w] = NoFail ]
  /\ us' = [ us EXCEPT ![w] = NoCall ]
  /\ cancelAt' = [ cancelAt EXCEPT ![w] = StatusNone ]
  /\ deadline' = [ deadline EXCEPT ![w] = FALSE ]
  /\ Goto(w, "pop")
  /\ UNCHANGED << task, result, iterations, history, sse, historyTTL, doneSig, queue,
                  workspace, nextId, stopped, bp, wh, cleaner, cli, rl, hooks, creq >>


\* ---------------------------------------------------------------- executor
\* What every executor step leaves alone.
execFrame == << queue, nextId, wt, cancelAt, deadline, stopped, bp, wh, cleaner, cli, rl, hooks, cancels,
                activeCount, creq >>

\* Executor.runStep, entry: "if t.Status != task.StatusRunning" is decided on
\* the snapshot the worker loaded; the UpdateStatus call is the next round trip.
EnterRunStep(w) ==
  IF wt[w].status # StatusRunning
  THEN Call(w, wt[w].id, StatusRunning, "inner", "cli_started", "run_err")
  ELSE Goto(w, "cli_started") /\ UNCHANGED us

\* Executor.Execute without the test of the iteration: every iteration clones.
CloneAlways(w) ==
  /\ pc[w] = "exec"
  /\ wt' = [ wt EXCEPT ![w].reuse = wt[w].iteration > 1 /\ workspace[wt[w].id] ]
  /\ Call(w, wt[w].id, StatusCloning, "inner", "clone_started", "f_error")
  /\ UNCHANGED << task, result, iterations, history, sse, historyTTL, doneSig, workspace,
                  wfail >>
  /\ UNCHANGED << queue, nextId, cancelAt, deadline, stopped, bp, wh, cleaner, cli, rl, hooks, cancels, activeCount, creq >>

\* Executor.Execute, "Clone or reuse workspace": os.Stat and the branch.  An
\* error of cloneStep enters failTask on ctx (see FailArgs).
CloneOrReuse(w) ==
  /\ pc[w] = "exec"
  /\ IF wt[w].iteration <= 1 \/ ~workspace[wt[w].id]
     THEN /\ Call(w, wt[w].id, StatusCloning, "inner", "clone_started", "f_error")
          /\ UNCHANGED wt
     ELSE /\ EnterRunStep(w)
          /\ wt' = [ wt EXCEPT ![w].reuse = TRUE ]
  /\ UNCHANGED << task, result, iterations, history, sse, historyTTL, doneSig, workspace,
                  wfail >>
  /\ UNCHANGED << queue, nextId, cancelAt, deadline, stopped, bp, wh, cleaner, cli, rl, hooks, cancels, activeCount, creq >>

\* Executor.cloneStep: EmitGit clone_started.
EmitCloneStarted(w) ==
  /\ pc[w] = "clone_started"
  /\ history' = Emit(w, "inner", wt[w].id, "git.clone_started")
  /\ sse' = Publish(w, "inner", wt[w].id, "git.clone_started")
  /\ Goto(w, "clone")
  /\ UNCHANGED << task, result, iterations, historyTTL, doneSig, workspace, us, wfail >>
  /\ UNCHANGED execFrame

\* Executor.cloneStep: workspaceMgr.Create (MkdirAll, then HSet of the
\* workspace record) and gitpkg.Clone; both fail on a context that is done,
\* the clone may also fail by itself.
Clone(w) ==
  /\ pc[w] = "clone"
  /\ workspace' = [ workspace EXCEPT ![wt[w].id] = TRUE ]
  /\ IF CtxDone(w, "inner")
     THEN Goto(w, "f_error")
     ELSE \E ok \in BOOLEAN : Goto(w, IF ok THEN "clone_completed" ELSE "f_error")
  /\ UNCHANGED << task, result, iterations, history, sse, historyTTL, doneSig, us, wfail >>
  /\ UNCHANGED execFrame

\* Executor.cloneStep: EmitGit clone_completed; cloneStep returns nil and
\* Execute goes on to runStep.
EmitCloneCompleted(w) ==
  /\ pc[w] = "clone_completed"
  /\ history' = Emit(w, "inner", wt[w].id, "git.clone_completed")
  /\ sse' = Publish(w, "inner", wt[w].id, "git.clone_completed")
  /\ EnterRunStep(w)
  /\ UNCHANGED << task, result, iterations, historyTTL, doneSig, workspace, wfail >>
  /\ UNCHANGED execFrame

\* Executor.runStep: EmitSystem cli_started.
EmitCLIStarted(w) ==
  /\ pc[w] = "cli_started"
  /\ history' = Emit(w, "inner", wt[w].id, "system.cli_started")
  /\ sse' = Publish(w, "inner", wt[w].id, "system.cli_started")
  /\ Goto(w, "run")
  /\ UNCHANGED << task, result, iterations, historyTTL, doneSig, workspace, us, wfail >>
  /\ UNCHANGED execFrame

\* Executor.runStep: runner.Run returns.  On a context that is done the
\* process is killed (or never started) and Run returns an error; otherwise
\* the CLI exits 0, its output forwarded by EmitCLIOutput, or exits non-zero.
Run(w) ==
  /\ pc[w] = "run"
  /\ IF CtxDone(w, "inner")
     THEN Goto(w, "run_err") /\ UNCHANGED << history, sse >>
     ELSE \E ok \in BOOLEAN :
            IF ok
            THEN /\ history' = Emit(w, "inner", wt[w].id, "stream.output")
                 /\ sse' = Publish(w, "inner", wt[w].id, "stream.output")
                 /\ Goto(w, "set_result")
            ELSE Goto(w, "run_err") /\ UNCHANGED << history, sse >>
  /\ UNCHANGED << task, result, iterations, historyTTL, doneSig, workspace, us, wfail >>
  /\ UNCHANGED execFrame

\* Executor.Execute, "if err != nil" after runStep: the error is classified by
\* the state of the two contexts, the timeout / cancelled event is emitted on
\* ctx and failTask is entered.
RunError(w) ==
  /\ pc[w] = "run_err"
  /\ IF deadline[w]
     THEN /\ history' = Emit(w, "outer", wt[w].id, "system.task_timeout")
          /\ sse' = Publish(w, "outer", wt[w].id, "system.task_timeout")
          /\ wfail' = [ wfail EXCEPT ![w] = [ msg |-> "task timed out", ctx |-> "outer" ] ]
     ELSE IF CtxDone(w, "outer")
     THEN /\ history' = Emit(w, "outer", wt[w].id, "system.task_cancelled")
          /\ sse' = Publish(w, "outer", wt[w].id, "system.task_cancelled")
          /\ wfail' = [ wfail EXCEPT ![w] = [ msg |-> "cancelled by user", ctx |-> "bg" ] ]
     ELSE /\ UNCHANGED << history, sse >>
          /\ wfail' = [ wfail EXCEPT ![w] = [ msg |-> "CLI execution failed", ctx |-> "outer" ] ]
  /\ Goto(w, "f_error")
  /\ UNCHANGED << task, result, iterations, historyTTL, doneSig, workspace, us >>
  /\ UNCHANGED execFrame

\* Executor.Execute: CalculateChanges and taskService.SetResult (result blob
\* with the result TTL and the changes summary in one pipeline).  An error of
\* SetResult, from a context that is done or from the store, is logged and
\* Execute goes on: the transition to completed is requested.
SetResult(w) ==
  /\ pc[w] = "set_result"
  /\ LET id == wt[w].id
     IN /\ IF CtxDone(w, "outer")
           THEN UNCHANGED << result, task >>
           ELSE \/ /\ result' = [ result EXCEPT ![id] = [ set |-> TRUE, ttl |-> TRUE,
                                                           iteration |-> wt[w].iteration ] ]
                   /\ \E ch \in BOOLEAN : task' = [ task EXCEPT ![id].changes = ch ]
                \/ UNCHANGED << result, task >>
        /\ Call(w, id, StatusCompleted, "outer", "save_iter", "dereg")
  /\ UNCHANGED << iterations, history, sse, historyTTL, doneSig, workspace, wfail >>
  /\ UNCHANGED execFrame

\* Service.SaveIteration: append the record to the task's iteration list.
SaveIteration(w, ctx, st) ==
  IF CtxDone(w, ctx)
  THEN iterations
  ELSE [ iterations EXCEPT ![wt[w].id] =
           Append(@, [ number |-> wt[w].iteration, status |-> st ]) ]

\* Streamer.EmitDone: publish on the done channel and Expire the history key
\* (which has an effect only if the key exists) in one pipeline.
EmitDone(w, ctx, st) ==
  IF CtxDone(w, ctx)
  THEN UNCHANGED << doneSig, historyTTL, sse >>
  ELSE /\ doneSig' = [ doneSig EXCEPT ![wt[w].id] = Append(@, st) ]
       /\ sse' = IF sse.sub /\ sse.id = wt[w].id
                 THEN [ sse EXCEPT !.ch = Append(@, "done") ]
                 ELSE sse
       /\ historyTTL' = [ historyTTL EXCEPT ![wt[w].id] = @ \/ history[wt[w].id] # << >> ]

\* Executor.Execute: "Save iteration record" of a completed iteration.
SaveCompletedIteration(w) ==
  /\ pc[w] = "save_iter"
  /\ iterations' = SaveIteration(w, "outer", StatusCompleted)
  /\ Goto(w, "emit_completed")
  /\ UNCHANGED << task, result, history, sse, historyTTL, doneSig, workspace, us, wfail >>
  /\ UNCHANGED execFrame

\* Executor.Execute: EmitResult task_completed.
EmitCompleted(w) ==
  /\ pc[w] = "emit_completed"
  /\ history' = Emit(w, "outer", wt[w].id, "result.task_completed")
  /\ sse' = Publish(w, "outer", wt[w].id, "result.task_completed")
  /\ Goto(w, "emit_done")
  /\ UNCHANGED << task, result, iterations, historyTTL, doneSig, workspace, us, wfail >>
  /\ UNCHANGED execFrame

\* Executor.Execute: EmitDone completed.
EmitDoneCompleted(w) ==
  /\ pc[w] = "emit_done"
  /\ EmitDone(w, "outer", StatusCompleted)
  /\ Goto(w, "webhook")
  /\ UNCHANGED << task, result, iterations, history, workspace, us, wfail >>
  /\ UNCHANGED execFrame

\* Executor.sendWebhook / the tail of Executor.failTask: the payload status
\* and the context webhook.Send is called with.  failTask sends "failed" on
\* the context it was given, Execute sends "completed" on ctx.
HookArgs(w) ==
  IF wfail[w] # NoFail
  THEN [ status |-> StatusFailed, ctx |-> wfail[w].ctx ]
  ELSE [ status |-> StatusCompleted, ctx |-> "outer" ]

\* Executor.Execute / Executor.failTask: "if t.CallbackURL != "" &&
\* e.webhook != nil" webhook.Send is called.
SendHook(w) ==
  IF hooks[wt[w].id].url
  THEN [ hooks EXCEPT ![wt[w].id].sends =
           Append(@, [ iteration |-> wt[w].iteration, status |-> HookArgs(w).status,
                       stored |-> task[wt[w].id].status,
                       live |-> ~CtxDone(w, HookArgs(w).ctx) ]) ]
  ELSE hooks

\* Executor.Execute / Executor.failTask: the webhook send, which blocks the
\* worker for the whole retry schedule; then Execute returns.
Webhook(w) ==
  /\ pc[w] = "webhook"
  /\ hooks' = SendHook(w)
  /\ Goto(w, "dereg")
  /\ UNCHANGED << task, result, iterations, history, sse, historyTTL, doneSig, workspace,
                  us, wfail >>
  /\ UNCHANGED << queue, nextId, wt, cancelAt, deadline, stopped, bp, wh, cleaner, cli, rl, cancels,
                  activeCount, creq >>

\* The arguments failTask is called with: those RunError chose, or, when
\* cloneStep returned the error, "clone failed" / "re-clone failed" on ctx.
FailArgs(w) ==
  IF wfail[w] # NoFail
  THEN wfail[w]
  ELSE [ msg |-> IF wt[w].iteration <= 1 THEN "clone failed" ELSE "re-clone failed",
         ctx |-> "outer" ]

\* Executor.failTask: SetError, then the transition to failed is requested;
\* its error is dropped.
FailSetError(w) ==
  /\ pc[w] = "f_error"
  /\ wfail' = [ wfail EXCEPT ![w] = FailArgs(w) ]
  /\ task' = IF CtxDone(w, FailArgs(w).ctx)
             THEN task
             ELSE [ task EXCEPT ![wt[w].id].error = FailArgs(w).msg ]
  /\ Call(w, wt[w].id, StatusFailed, FailArgs(w).ctx, "f_iter", "f_iter")
  /\ UNCHANGED << result, iterations, history, sse, historyTTL, doneSig, workspace >>
  /\ UNCHANGED execFrame

\* Executor.failTask: "Save failed iteration record".
SaveFailedIteration(w) ==
  /\ pc[w] = "f_iter"
  /\ iterations' = SaveIteration(w, wfail[w].ctx, StatusFailed)
  /\ Goto(w, "f_emit")
  /\ UNCHANGED << task, result, history, sse, historyTTL, doneSig, workspace, us, wfail >>
  /\ UNCHANGED execFrame

\* Executor.failTask: EmitSystem task_failed.
EmitFailed(w) ==
  /\ pc[w] = "f_emit"
  /\ history' = Emit(w, wfail[w].ctx, wt[w].id, "system.task_failed")
  /\ sse' = Publish(w, wfail[w].ctx, wt[w].id, "system.task_failed")
  /\ Goto(w, "f_done")
  /\ UNCHANGED << task, result, iterations, historyTTL, doneSig, workspace, us, wfail >>
  /\ UNCHANGED execFrame

\* Executor.failTask: EmitDone failed.
EmitDoneFailed(w) ==
  /\ pc[w] = "f_done"
  /\ EmitDone(w, wfail[w].ctx, StatusFailed)
  /\ Goto(w, "webhook")
  /\ UNCHANGED << task, result, iterations, history, workspace, us, wfail >>
  /\ UNCHANGED execFrame

\* The positions at which a worker is inside Executor.Execute.
ExecLabels ==
  { "exec", "clone_started", "clone", "clone_completed", "cli_started", "run",
    "run_err", "set_result", "save_iter", "emit_completed", "emit_done",
    "webhook", "f_error", "f_iter", "f_emit", "f_done", "us_read", "us_write" }

\* The positions at which the deadline-bound child context is still in use.
InnerLabels == { "exec", "clone_started", "clone", "clone_completed", "cli_started", "run" }

\* context.WithTimeout: the deadline of taskCtx fires (its error is
\* DeadlineExceeded only if the parent was not cancelled before).
DeadlineExceeded(w) ==
  /\ \/ pc[w] \in InnerLabels
     \/ pc[w] \in { "us_read", "us_write" } /\ us[w].ctx = "inner"
  /\ ~deadline[w]
  /\ ~CtxDone(w, "outer")
  /\ deadline' = [ deadline EXCEPT ![w] = TRUE ]
  /\ UNCHANGED << task, result, iterations, history, sse, historyTTL, doneSig, queue,
                  workspace, nextId, pc, us, wt, wfail, cancelAt, stopped, bp, wh, cleaner, cli, rl, hooks, cancels,
                  activeCount, creq >>

\* Pool.Stop: cancel the pool context; the workers' task contexts derive
\* from it.
Stop ==
  /\ ~stopped
  /\ stopped' = TRUE
  /\ UNCHANGED << task, result, iterations, history, sse, historyTTL, doneSig, queue,
                  workspace, nextId, pc, us, wt, wfail, cancelAt, deadline, cancels,
                  activeCount, creq, bp, wh, cleaner, cli, rl, hooks >>


\* ---------------------------------------------------------------- API handlers
\* What a handler step leaves alone.
apiFrame == << result, iterations, history, sse, historyTTL, doneSig, nextId, wt, wfail,
               deadline, stopped, bp, wh, cleaner, cli, rl, hooks, cancels, activeCount >>

Created == 1..nextId

\* The request handlers are interchangeable: requests are numbered in the
\* order in which they arrive.
NextRequest(c) == pc[c] = "idle" /\ \A d \in Clients : d < c => pc[d] # "idle"

\* Instruct whose status gate also lets a running task through.
InstructGetRunningToo(c) ==
  /\ NextRequest(c)
  /\ \E id \in Created :
       /\ task[id].status \in { StatusAwaitingInstruction, StatusCompleted, StatusPRCreated,
                                StatusRunning }
       /\ task[id].iteration < MaxIter
       /\ creq' = [ creq EXCEPT ![c] = [ op |-> "instruct", gone |-> FALSE, id |-> id,
                                         iteration |-> task[id].iteration,
                                         resp |-> "none" ] ]
       /\ Call(c, id, StatusAwaitingInstruction, "req", "i_run", "ret")
  /\ UNCHANGED << task, queue, workspace, cancelAt >>
  /\ UNCHANGED apiFrame

\* Service.Instruct (called by TaskHandler.Instruct): Get and the status gate;
\* the transition to awaiting_instruction is requested unless the task is
\* already there.
InstructGet(c) ==
  /\ NextRequest(c)
  /\ \E id \in Created :
       /\ task[id].status \in { StatusAwaitingInstruction, StatusCompleted, StatusPRCreated }
       /\ task[id].iteration < MaxIter
       /\ creq' = [ creq EXCEPT ![c] = [ op |-> "instruct", gone |-> FALSE, id |-> id,
                                         iteration |-> task[id].iteration,
                                         resp |-> "none" ] ]
       /\ IF task[id].status = StatusAwaitingInstruction
          THEN Call(c, id, StatusRunning, "req", "i_commit", "ret")
          ELSE Call(c, id, StatusAwaitingInstruction, "req", "i_run", "ret")
  /\ UNCHANGED << task, queue, workspace, cancelAt >>
  /\ UNCHANGED apiFrame

\* Service.Instruct: the status gate rejects the request: a conflict for a
\* task in a mid-pipeline state, a distinct error for a failed task.
InstructReject(c) ==
  /\ NextRequest(c)
  /\ \E id \in Created :
       /\ task[id].status \notin { StatusAwaitingInstruction, StatusCompleted, StatusPRCreated }
       /\ creq' = [ creq EXCEPT ![c] =
                      [ op |-> "instruct", gone |-> FALSE, id |-> id, iteration |-> task[id].iteration,
                        resp |-> CASE task[id].status \in { StatusCloning, StatusRunning,
                                                            StatusCreatingPR } -> "conflict"
                                   [] task[id].status = StatusFailed -> "task_failed"
                                   [] OTHER -> "invalid_status" ] ]
  /\ Goto(c, "ret")
  /\ UNCHANGED << task, queue, workspace, cancelAt, us >>
  /\ UNCHANGED apiFrame

\* Service.Instruct: second step of the two-step transition.
InstructRun(c) ==
  /\ pc[c] = "i_run"
  /\ Call(c, creq[c].id, StatusRunning, "req", "i_commit", "ret")
  /\ UNCHANGED << task, queue, workspace, cancelAt, creq >>
  /\ UNCHANGED apiFrame

\* Service.Instruct: increment the iteration, set current_prompt, enqueue.
InstructCommit(c) ==
  /\ pc[c] = "i_commit"
  /\ task' = [ task EXCEPT ![creq[c].id].iteration = creq[c].iteration + 1 ]
  /\ queue' = Append(queue, creq[c].id)
  /\ Goto(c, "ret")
  /\ UNCHANGED << us, workspace, cancelAt, creq >>
  /\ UNCHANGED apiFrame

\* TaskHandler.Cancel: Get and the status gate.
CancelGet(c) ==
  /\ NextRequest(c)
  /\ \E id \in Created :
       /\ task[id].status \in { StatusRunning, StatusCloning }
       /\ creq' = [ creq EXCEPT ![c] = [ op |-> "cancel", gone |-> FALSE, id |-> id, iteration |-> 0, resp |-> "none" ] ]
  /\ Goto(c, "c_fire")
  /\ UNCHANGED << task, queue, workspace, cancelAt, us >>
  /\ UNCHANGED apiFrame

\* Pool.Cancel: look the cancel func up and call it; "not running" if absent.
Cancel(c) ==
  /\ pc[c] = "c_fire"
  /\ LET id == creq[c].id
         w == cancels[id]
     IN cancelAt' = IF w # NoWorker /\ cancelAt[w] = StatusNone
                    THEN [ cancelAt EXCEPT ![w] = task[id].status ]
                    ELSE cancelAt
  /\ creq' = [ creq EXCEPT ![c] = NoRequest ]
  /\ Goto(c, "done")
  /\ UNCHANGED << task, queue, workspace, us >>
  /\ UNCHANGED apiFrame

\* PRService.CreatePR without the test of the changes summary.
CreatePRGetAnyChanges(c) ==
  /\ NextRequest(c)
  /\ \E id \in Created :
       /\ task[id].status = StatusCompleted
       /\ creq' = [ creq EXCEPT ![c] = [ op |-> "create_pr", gone |-> FALSE, id |-> id, iteration |-> 0, resp |-> "none" ] ]
       /\ Call(c, id, StatusCreatingPR, "req", "p_git", "ret")
  /\ UNCHANGED << task, queue, workspace, cancelAt >>
  /\ UNCHANGED apiFrame

\* PRService.CreatePR going on when the transition to creating_pr failed.
CreatePRGetDespiteError(c) ==
  /\ NextRequest(c)
  /\ \E id \in Created :
       /\ task[id].status = StatusCompleted
       /\ task[id].changes
       /\ creq' = [ creq EXCEPT ![c] = [ op |-> "create_pr", gone |-> FALSE, id |-> id, iteration |-> 0, resp |-> "none" ] ]
       /\ Call(c, id, StatusCreatingPR, "req", "p_git", "p_git")
  /\ UNCHANGED << task, queue, workspace, cancelAt >>
  /\ UNCHANGED apiFrame

\* PRService.CreatePR: Get, the status gate and the changes gate; the
\* transition to creating_pr is requested.
CreatePRGet(c) ==
  /\ NextRequest(c)
  /\ \E id \in Created :
       /\ task[id].status = StatusCompleted
       /\ task[id].changes
       /\ creq' = [ creq EXCEPT ![c] = [ op |-> "create_pr", gone |-> FALSE, id |-> id, iteration |-> 0, resp |-> "none" ] ]
       /\ Call(c, id, StatusCreatingPR, "req", "p_git", "ret")
  /\ UNCHANGED << task, queue, workspace, cancelAt >>
  /\ UNCHANGED apiFrame

\* PRService.CreatePR returns at a gate and TaskHandler.CreatePR maps the
\* error text to the response: 409 for "must be in completed status", 400 for
\* "no changes".
CreatePRReject(c) ==
  /\ NextRequest(c)
  /\ \E id \in Created :
       /\ task[id].status # StatusCompleted \/ ~task[id].changes
       /\ creq' = [ creq EXCEPT ![c] =
                      [ op |-> "create_pr", gone |-> FALSE, id |-> id, iteration |-> 0,
                        resp |-> IF task[id].status # StatusCompleted THEN "409" ELSE "400" ] ]
  /\ Goto(c, "ret")
  /\ UNCHANGED << task, queue, workspace, cancelAt, us >>
  /\ UNCHANGED apiFrame

\* PRService.CreatePR after the transition: repo URL, provider, branch, commit,
\* push and provider call, all of which fail on a request context that is
\* done.  On success the PR fields are written and the transition to
\* pr_created requested (its error is logged, the response is 200); on a
\* failure failPR stores the error (SetError, no effect on a context that is
\* done) and requests the transition to failed, dropping its error.
CreatePRGit(c) ==
  /\ pc[c] = "p_git"
  /\ LET id == creq[c].id
     IN IF CtxDone(c, "req")
        THEN /\ UNCHANGED task
             /\ Call(c, id, StatusFailed, "req", "ret", "ret")
        ELSE \E ok \in BOOLEAN :
               IF ok
               THEN /\ task' = [ task EXCEPT ![id].pr = TRUE ]
                    /\ Call(c, id, StatusPRCreated, "req", "ret", "ret")
               ELSE /\ task' = [ task EXCEPT ![id].error = "PR creation failed" ]
                    /\ Call(c, id, StatusFailed, "req", "ret", "ret")
  /\ UNCHANGED << queue, workspace, cancelAt, creq >>
  /\ UNCHANGED apiFrame

\* The context of a request in progress becomes done: the client went away or
\* chi's Timeout middleware cancelled it after 60 s.
RequestGone(c) ==
  /\ pc[c] \notin { "idle", "done" }
  /\ ~creq[c].gone
  /\ creq' = [ creq EXCEPT ![c].gone = TRUE ]
  /\ UNCHANGED << task, queue, workspace, cancelAt, us, pc >>
  /\ UNCHANGED apiFrame

\* WorkspaceHandler.Delete: Get and the status gate.
WorkspaceDeleteGet(c) ==
  /\ NextRequest(c)
  /\ \E id \in Created :
       /\ task[id].status \notin { StatusRunning, StatusCloning, StatusCreatingPR }
       /\ workspace[id]
       /\ creq' = [ creq EXCEPT ![c] = [ op |-> "ws_delete", gone |-> FALSE, id |-> id, iteration |-> 0, resp |-> "none" ] ]
  /\ Goto(c, "w_del")
  /\ UNCHANGED << task, queue, workspace, cancelAt, us >>
  /\ UNCHANGED apiFrame

\* WorkspaceHandler.Delete: manager.Delete removes the directory.
WorkspaceDelete(c) ==
  /\ pc[c] = "w_del"
  /\ workspace' = [ workspace EXCEPT ![creq[c].id] = FALSE ]
  /\ creq' = [ creq EXCEPT ![c] = NoRequest ]
  /\ Goto(c, "done")
  /\ UNCHANGED << task, queue, cancelAt, us >>
  /\ UNCHANGED apiFrame

\* The handler writes its response and returns.
Return(c) ==
  /\ pc[c] = "ret"
  /\ creq' = [ creq EXCEPT ![c] = NoRequest ]
  /\ us' = [ us EXCEPT ![c] = NoCall ]
  /\ Goto(c, "done")
  /\ UNCHANGED << task, queue, workspace, cancelAt >>
  /\ UNCHANGED apiFrame

\* ---------------------------------------------------------------- specification
WorkerStep(w) ==
  \/ BLPop(w) \/ Load(w) \/ Deregister(w)
  \/ CloneOrReuse(w) \/ EmitCloneStarted(w) \/ Clone(w) \/ EmitCloneCompleted(w)
  \/ EmitCLIStarted(w) \/ Run(w) \/ RunError(w) \/ SetResult(w)
  \/ SaveCompletedIteration(w) \/ EmitCompleted(w) \/ EmitDoneCompleted(w)
  \/ Webhook(w) \/ FailSetError(w) \/ SaveFailedIteration(w) \/ EmitFailed(w)
  \/ EmitDoneFailed(w)

\* The handlers whose code is in the repository's source.
CodeClientStep(c) ==
  \/ CancelGet(c) \/ Cancel(c)
  \/ CreatePRGet(c) \/ CreatePRReject(c) \/ CreatePRGit(c)
  \/ WorkspaceDeleteGet(c) \/ WorkspaceDelete(c)
  \/ Return(c)

InstructStep(c) ==
  InstructGet(c) \/ InstructReject(c) \/ InstructRun(c) \/ InstructCommit(c)

NextCode ==
  \/ \E w \in Workers : WorkerStep(w)
  \/ \E w \in Workers : DeadlineExceeded(w)
  \/ \E c \in Clients : CodeClientStep(c)
  \/ \E p \in Procs : UpdateStatusRead(p)
  \/ \E p \in Procs : UpdateStatusWrite(p)
  \/ Create

\* Create, the workers and the cancel, create-pr and workspace-delete requests.
SpecCode == Init /\ [][NextCode]_vars

Next == NextCode \/ \E c \in Clients : InstructStep(c)

\* The same with Instruct requests.
Spec == Init /\ [][Next]_vars

\* The same with a shutdown of the pool at any moment.
NextStop == Next \/ Stop \/ \E w \in Workers : WorkerShutdown(w)

SpecStop == Init /\ [][NextStop]_vars

NextShutdown == NextCode \/ Stop \/ \E w \in Workers : WorkerShutdown(w)

\* SpecCode with a shutdown of the pool at any moment.
SpecShutdown == Init /\ [][NextShutdown]_vars

sweepFrame == << task, result, iterations, history, historyTTL, doneSig, queue,
                 nextId, pc, us, wt, wfail, cancelAt, deadline, stopped, cancels,
                 activeCount, creq, bp, sse, hooks, wh, rl, cli >>

\* Cleaner.cleanup / Cleaner.emergencyCleanup, one round of the loop over
\* manager.List: a workspace (expired, or any in the emergency cleanup) whose
\* task isTaskRunning does not find running, cloning or creating_pr (a task
\* that is not found counts as not running) is chosen for deletion.
CleanerCheck ==
  /\ cleaner.pc = "idle"
  /\ \E id \in Ids :
       /\ workspace[id]
       /\ task[id].status \notin { StatusRunning, StatusCloning, StatusCreatingPR }
       /\ cleaner' = [ pc |-> "delete", id |-> id ]
  /\ UNCHANGED workspace
  /\ UNCHANGED sweepFrame

\* Cleaner.cleanup / Cleaner.emergencyCleanup: manager.Delete.
CleanerDelete ==
  /\ cleaner.pc = "delete"
  /\ workspace' = [ workspace EXCEPT ![cleaner.id] = FALSE ]
  /\ cleaner' = NoSweep
  /\ UNCHANGED sweepFrame

NextSweep == NextCode \/ CleanerCheck \/ CleanerDelete

\* SpecCode with the workspace cleaner.
SpecSweep == Init /\ [][NextSweep]_vars

NextHook == NextCode \/ CreateWithCallback

\* The same with tasks created with and without a callback URL.
SpecHook == Init /\ [][NextHook]_vars

\* ---------------------------------------------------------------- key expiry
\* The store deletes the state hash of a task once the TTL that UpdateStatus
\* put on it (pipe.Expire with stateTTL) has run out.
ExpireTask ==
  /\ \E id \in Created :
       /\ task[id].ttl
       /\ task' = [ task EXCEPT ![id] = NoTask ]
  /\ UNCHANGED << result, iterations, history, sse, historyTTL, doneSig, queue,
                  workspace, nextId, pc, us, wt, wfail, cancelAt, deadline, stopped, bp, wh, cleaner, cli, rl, hooks,
                  cancels, activeCount, creq >>

\* The store deletes the history list of a task once the TTL that EmitDone put
\* on it (pipe.Expire with historyTTL) has run out.
ExpireHistory ==
  /\ \E id \in Created :
       /\ historyTTL[id]
       /\ history' = [ history EXCEPT ![id] = << >> ]
       /\ historyTTL' = [ historyTTL EXCEPT ![id] = FALSE ]
  /\ UNCHANGED << task, result, iterations, sse, doneSig, queue,
                  workspace, nextId, pc, us, wt, wfail, cancelAt, deadline, stopped, bp, wh, cleaner, cli, rl, hooks,
                  cancels, activeCount, creq >>

NextTimeout == NextCode \/ \E c \in Clients : RequestGone(c)

\* The requests and the workers of SpecCode, a request's context becoming done
\* at any moment.
SpecTimeout == Init /\ [][NextTimeout]_vars

NextQueue ==
  \/ \E w \in Workers : WorkerStep(w)
  \/ \E p \in Procs : UpdateStatusRead(p)
  \/ \E p \in Procs : UpdateStatusWrite(p)
  \/ Create
  \/ CreateMore
  \/ \E w \in Workers : DeadlineExceeded(w)

\* Create for MaxTasks + MoreTasks tasks and the workers.
SpecQueue == Init /\ [][NextQueue]_vars

NextExpire == NextCode \/ ExpireTask \/ ExpireHistory

\* The requests and the workers of SpecCode with the expiry of the keys that
\* carry a TTL.
SpecExpire == Init /\ [][NextExpire]_vars

NextRequeue ==
  \/ \E w \in Workers : WorkerStep(w)
  \/ \E p \in Procs : UpdateStatusRead(p)
  \/ \E p \in Procs : UpdateStatusWrite(p)
  \/ Create
  \/ \E c \in Clients : InstructStep(c)
  \/ ExpireTask

\* Create, Instruct requests and the workers, with the expiry of the state
\* hash: an id can be in the queue after its record is gone.
SpecRequeue == Init /\ [][NextRequeue]_vars

\* ---------------------------------------------------------------- SSE stream
\* The frame of a step of the stream handler.
streamFrame == << task, result, iterations, history, historyTTL, doneSig, queue,
                  workspace, nextId, pc, us, wt, wfail, cancelAt, deadline, stopped,
                  cancels, activeCount, creq, bp, wh, cleaner, cli, rl, hooks >>

\* isTerminal without the test for completed.
isTerminalFailedOrPR(st) == st \in { StatusFailed, StatusPRCreated }

\* StreamHandler.Stream: isTerminal.
isTerminal(st) == st \in { StatusCompleted, StatusFailed, StatusPRCreated }

\* StreamHandler.Stream: service.Get, "Verify task exists and get current status".
StreamGet ==
  /\ sse.pc = "idle"
  /\ \E id \in Created :
       sse' = [ sse EXCEPT !.pc = "subscribe", !.id = id, !.status = task[id].status ]
  /\ UNCHANGED streamFrame

\* writeSSE: a named event, written after the data events written so far.
Named(ev, st) == [ event |-> ev, status |-> st, at |-> Len(sse.got) ]

\* StreamHandler.Stream, "Replay history": LRange and the write of each entry;
\* a terminal task gets done with the status Get returned and the handler
\* returns.
Replay ==
  LET all == sse.got \o history[sse.id]
  IN [ sse EXCEPT !.got = all,
                  !.replayed = Len(history[sse.id]),
                  !.named = IF isTerminal(sse.status)
                            THEN Append(@, [ event |-> "done", status |-> sse.status,
                                             at |-> Len(all) ])
                            ELSE @,
                  !.end = IF isTerminal(sse.status) THEN "terminal" ELSE @ ]

\* StreamHandler.Stream: Subscribe to the stream and done channels unless the
\* task is terminal, and the connected event.
Subscribe ==
  [ sse EXCEPT !.sub = ~isTerminal(sse.status),
               !.subAt = IF isTerminal(sse.status) THEN -1 ELSE Len(history[sse.id]),
               !.named = Append(@, Named("connected", sse.status)) ]

\* StreamHandler.Stream with the history read before the subscription.
StreamJoinHistoryFirst ==
  \/ /\ sse.pc = "subscribe"
     /\ sse' = [ Replay EXCEPT !.pc = "replay" ]
     /\ UNCHANGED streamFrame
  \/ /\ sse.pc = "replay"
     /\ sse' = [ Subscribe EXCEPT !.pc = IF isTerminal(sse.status) THEN "closed" ELSE "live" ]
     /\ UNCHANGED streamFrame

\* StreamHandler.Stream: the subscription, then the connected event and the
\* replay of the history.
StreamJoin ==
  \/ /\ sse.pc = "subscribe"
     /\ sse' = [ Subscribe EXCEPT !.pc = "replay" ]
     /\ UNCHANGED streamFrame
  \/ /\ sse.pc = "replay"
     /\ sse' = [ Replay EXCEPT !.pc = IF isTerminal(sse.status) THEN "closed" ELSE "live" ]
     /\ UNCHANGED streamFrame

\* StreamHandler.Stream, "case msg, ok := <-msgCh": a done message is forwarded
\* as a named event and the handler returns (pubsub.Close), any other is
\* written to the client as a data event.
StreamLive ==
  /\ sse.pc = "live"
  /\ sse.ch # << >>
  /\ sse' = IF Head(sse.ch) = "done"
            THEN [ sse EXCEPT !.pc = "closed", !.sub = FALSE, !.ch = << >>, !.end = "done",
                              !.named = Append(@, Named("done", "payload")) ]
            ELSE [ sse EXCEPT !.got = Append(@, Head(sse.ch)), !.ch = Tail(@) ]
  /\ UNCHANGED streamFrame

\* StreamHandler.Stream, "case <-keepalive.C": a keepalive comment is written.
StreamKeepalive ==
  /\ sse.pc = "live"
  /\ ~sse.keepalive
  /\ sse' = [ sse EXCEPT !.keepalive = TRUE ]
  /\ UNCHANGED streamFrame

\* StreamHandler.Stream, "case <-r.Context().Done()" and "case <-deadline": the
\* client is gone or the stream is 10 minutes old; the handler returns.
StreamDisconnect ==
  /\ sse.pc = "live"
  /\ sse' = [ sse EXCEPT !.pc = "closed", !.sub = FALSE, !.ch = << >>, !.end = "gone" ]
  /\ UNCHANGED streamFrame

StreamStep ==
  StreamGet \/ StreamJoin \/ StreamLive \/ StreamKeepalive \/ StreamDisconnect

NextStream == NextCode \/ StreamStep

\* Create, the workers, the cancel, create-pr and workspace-delete requests
\* and one SSE request.
SpecStream == Init /\ [][NextStream]_vars

\* ---------------------------------------------------------------- buildPrompt
defaultMaxContextChars == 50000

MaxEntries == 3

\* The lengths the prompt and result summary of one stored iteration add up to.
EntryChars == { 10000, 20000, 30000 }

\* len(entry): the format string's 64 characters around the iteration's texts.
EntryLen(iter) == 64 + iter.chars

\* The for loop of buildPrompt from entry i on, totalChars being total.
RECURSIVE writeEntries(_, _, _)
writeEntries(iters, i, total) ==
  IF i > Len(iters)
  THEN [ entries |-> << >>, truncated |-> FALSE, chars |-> total ]
  ELSE IF total + EntryLen(iters[i]) > defaultMaxContextChars
  THEN [ entries |-> << >>, truncated |-> TRUE, chars |-> total ]
  ELSE LET rest == writeEntries(iters, i + 1, total + EntryLen(iters[i]))
       IN [ rest EXCEPT !.entries = << iters[i].number >> \o @ ]

\* Executor.buildPrompt: what the returned string is made of.
buildPrompt(t, iters, err) ==
  LET currentPrompt == IF t.current_prompt = "" THEN t.prompt ELSE t.current_prompt
      loop == writeEntries(iters, 1, 0)
  IN IF t.iteration <= 1 \/ err \/ Len(iters) = 0
     THEN [ NoPrompt EXCEPT !.instruction = currentPrompt ]
     ELSE [ header |-> TRUE, entries |-> loop.entries, truncated |-> loop.truncated,
            chars |-> loop.chars, instruction |-> currentPrompt ]

\* The iteration lists GetIterations returns: records 1..n in order.
IterationLists ==
  UNION { [ 1..n -> EntryChars ] : n \in 0..MaxEntries }

\* A task at iteration 1..MaxEntries+1 with its stored iterations, and whether
\* GetIterations fails.
BuildInputs ==
  { [ t |-> [ iteration |-> Len(cs) + 1, prompt |-> "prompt", current_prompt |-> cp ],
      iterations |-> [ k \in DOMAIN cs |-> [ number |-> k, chars |-> cs[k] ] ],
      err |-> e, out |-> NoPrompt ] :
    cs \in IterationLists, cp \in { "", "instruction" }, e \in BOOLEAN }

InitPrompt == Idle /\ bp \in BuildInputs /\ sse = NoStream /\ wh = NoSend /\ hooks = NoHooks /\ cleaner = NoSweep /\ cli = NoRun /\ rl = NoLimit

\* runStep calls buildPrompt.
BuildPrompt ==
  /\ bp.out = NoPrompt
  /\ bp' = [ bp EXCEPT !.out = buildPrompt(bp.t, bp.iterations, bp.err) ]
  /\ UNCHANGED << task, result, iterations, history, sse, historyTTL, doneSig, queue,
                  workspace, nextId, pc, us, wt, wfail, cancelAt, deadline, stopped,
                  cancels, activeCount, creq, wh, cleaner, cli, rl, hooks >>

NextPrompt == BuildPrompt

\* Calls of buildPrompt on every task and iteration list within the bounds.
SpecPrompt == InitPrompt /\ [][NextPrompt]_vars

\* ---------------------------------------------------------------- webhook
MaxRetryCount == 3

\* cfg.Webhooks.RetryDelay, in seconds.
baseDelay == 5

RECURSIVE Pow(_, _)
Pow(b, e) == IF e = 0 THEN 1 ELSE b * Pow(b, e - 1)

\* Sender.Send with one more round of the loop.
OneMoreAttempt(w) == w.attempt <= w.maxRetries + 1

\* Sender.Send: the loop condition.
MoreAttempts(w) == w.attempt <= w.maxRetries

\* A Sender configured with 0..MaxRetryCount retries about to send.
InitWebhook ==
  /\ Idle /\ bp = NoBuild /\ sse = NoStream /\ hooks = NoHooks /\ cleaner = NoSweep /\ cli = NoRun /\ rl = NoLimit
  /\ wh \in { [ NoSend EXCEPT !.maxRetries = n, !.res = "sending" ] : n \in 0..MaxRetryCount }

webhookFrame == << task, result, iterations, history, historyTTL, doneSig, queue,
                   workspace, nextId, pc, us, wt, wfail, cancelAt, deadline, stopped,
                   cancels, activeCount, creq, bp, sse, hooks, cli, rl, cleaner >>

\* Sender.Send: the head of the loop; after the last round the send gives up
\* with "webhook delivery failed"; a round after the first waits first.
SendLoop ==
  /\ wh.res = "sending"
  /\ ~wh.wait
  /\ wh.last # "posting"
  /\ wh' = IF ~MoreAttempts(wh)
           THEN [ wh EXCEPT !.res = "failed" ]
           ELSE IF wh.attempt > 0
           THEN [ wh EXCEPT !.wait = TRUE ]
           ELSE [ wh EXCEPT !.last = "posting" ]
  /\ UNCHANGED webhookFrame

\* Sender.Send: the select on ctx.Done() and time.After(delay).
SendWait ==
  /\ wh.res = "sending"
  /\ wh.wait
  /\ wh' = IF wh.ctxDone
           THEN [ wh EXCEPT !.res = "ctx_err", !.wait = FALSE ]
           ELSE [ wh EXCEPT !.delays = Append(@, Pow(5, wh.attempt - 1) * baseDelay),
                            !.wait = FALSE, !.last = "posting" ]
  /\ UNCHANGED webhookFrame

\* Sender.Send: client.Do.  On a context that is done the request is not
\* sent and Do returns an error; otherwise the answer is 2xx, another status
\* or an error.  2xx ends the send, anything else goes to the next round.
SendPost ==
  /\ wh.res = "sending"
  /\ wh.last = "posting"
  /\ IF wh.ctxDone
     THEN wh' = [ wh EXCEPT !.last = "error", !.attempt = @ + 1 ]
     ELSE \E answer \in { "2xx", "non2xx", "error" } :
            wh' = IF answer = "2xx"
                  THEN [ wh EXCEPT !.sent = @ + 1, !.last = answer, !.res = "delivered" ]
                  ELSE [ wh EXCEPT !.sent = @ + 1, !.last = answer, !.attempt = @ + 1 ]
  /\ UNCHANGED webhookFrame

\* The context Send was called with becomes done.
SendCtxDone ==
  /\ wh.res = "sending"
  /\ ~wh.ctxDone
  /\ wh' = [ wh EXCEPT !.ctxDone = TRUE ]
  /\ UNCHANGED webhookFrame

NextWebhook == SendLoop \/ SendWait \/ SendPost \/ SendCtxDone

\* Calls of Sender.Send for every retry count within the bound.
SpecWebhook == InitWebhook /\ [][NextWebhook]_vars

\* ---------------------------------------------------------------- rate limit
\* cfg.RateLimit.TasksPerMinute
Limit == 2

\* The window (time.Minute in NewRateLimiter), in milliseconds.
Window == 2

\* The clock stops at MaxNow milliseconds.
MaxNow == 3

\* The submissions made with one bearer token.
NumSubmits == 3

Submits == 1..NumSubmits

\* Submissions of one token against an empty key.
InitLimit ==
  /\ Idle /\ bp = NoBuild /\ sse = NoStream /\ wh = NoSend /\ hooks = NoHooks /\ cleaner = NoSweep /\ cli = NoRun
  /\ rl = [ NoLimit EXCEPT !.reqs = [ r \in Submits |-> [ pc |-> "idle", now |-> 0 ] ] ]

limitFrame == << task, result, iterations, history, historyTTL, doneSig, queue,
                 workspace, nextId, pc, us, wt, wfail, cancelAt, deadline, stopped,
                 cancels, activeCount, creq, bp, sse, hooks, wh, cleaner, cli >>

\* One millisecond passes; the store deletes the key when the TTL that
\* pipe.Expire put on it has run out.
Tick ==
  /\ rl.now < MaxNow
  /\ rl' = [ rl EXCEPT !.now = @ + 1,
                       !.zset = IF rl.expireAt = rl.now + 1 THEN {} ELSE @,
                       !.expireAt = IF rl.expireAt = rl.now + 1 THEN -1 ELSE @ ]
  /\ UNCHANGED limitFrame

\* The submissions are interchangeable: the next to arrive has the least index.
NextSubmit(r) == \A q \in Submits : rl.reqs[q].pc = "idle" => r <= q

\* RateLimiter.allow: now := time.Now().UnixMilli().
AllowNow(r) ==
  /\ rl.reqs[r].pc = "idle"
  /\ NextSubmit(r)
  /\ rl' = [ rl EXCEPT !.reqs[r] = [ pc |-> "exec", now |-> rl.now ] ]
  /\ UNCHANGED limitFrame

\* The members of the sorted set after ZRemRangeByScore(0, windowStart); a
\* member is the decimal text of its score, so the set is a set of scores.
Purged(zset, windowStart) == { m \in zset : m > windowStart }

\* RateLimiter.allow: the pipeline ZRemRangeByScore, ZCard, ZAdd, Expire and
\* the comparison of the count with the limit; RateLimiter.Middleware lets the
\* request through or answers 429.
AllowExec(r) ==
  /\ rl.reqs[r].pc = "exec"
  /\ LET now == rl.reqs[r].now
         kept == Purged(rl.zset, now - Window)
         count == Cardinality(kept)
     IN rl' = [ rl EXCEPT !.zset = kept \cup { now },
                          !.expireAt = rl.now + Window,
                          !.admitted = IF count >= Limit THEN @ ELSE Append(@, rl.now),
                          !.reqs[r].pc = IF count >= Limit THEN "429" ELSE "next" ]
  /\ UNCHANGED limitFrame

NextLimit ==
  \/ Tick
  \/ \E r \in Submits : AllowNow(r)
  \/ \E r \in Submits : AllowExec(r)

\* Submissions with one token at any moments of the clock.
SpecLimit == InitLimit /\ [][NextLimit]_vars

\* ---------------------------------------------------------------- CLI output
\* The lines of one run are at most MaxLines.
MaxLines == 3

\* A text is a sequence of characters.
Texts == { << >>, << "a" >>, << "b" >> }

\* The content entries of an assistant message.
Contents ==
  { << >>,
    << [ type |-> "text", text |-> << "x" >> ] >>,
    << [ type |-> "text", text |-> << >> ] >>,
    << [ type |-> "tool_use", text |-> << "z" >> ] >>,
    << [ type |-> "text", text |-> << "x" >> ], [ type |-> "tool_use", text |-> << "z" >> ],
       [ type |-> "text", text |-> << "y" >> ] >> }

\* The lines the agent writes: result events, assistant messages, events of
\* another type, lines that are no JSON object and empty lines.
Lines ==
  { [ type |-> "result", result |-> t, content |-> << >> ] : t \in Texts }
  \cup { [ type |-> "assistant", result |-> << >>, content |-> c ] : c \in Contents }
  \cup { [ type |-> ty, result |-> << >>, content |-> << >> ] :
           ty \in { "system", "garbage", "empty" } }

\* extractStreamData, case "assistant": the text fields of the content
\* entries of type "text" that are not empty, concatenated.
RECURSIVE ConcatText(_)
ConcatText(content) ==
  IF content = << >>
  THEN << >>
  ELSE IF Head(content).type = "text" /\ Head(content).text # << >>
       THEN Head(content).text \o ConcatText(Tail(content))
       ELSE ConcatText(Tail(content))

\* extractStreamData: the result text and the assistant text of one line.
extractStreamData(line) ==
  IF line.type = "result"
  THEN [ resultText |-> line.result, assistantText |-> << >> ]
  ELSE IF line.type = "assistant"
  THEN [ resultText |-> << >>, assistantText |-> ConcatText(line.content) ]
  ELSE [ resultText |-> << >>, assistantText |-> << >> ]

RECURSIVE SeqsUpTo(_, _)
SeqsUpTo(S, n) ==
  IF n = 0
  THEN { << >> }
  ELSE LET shorter == SeqsUpTo(S, n - 1)
       IN shorter \cup { Append(q, x) : q \in shorter, x \in S }

\* A run started on any output of at most MaxLines lines.
InitRun ==
  /\ Idle /\ bp = NoBuild /\ sse = NoStream /\ wh = NoSend /\ hooks = NoHooks
  /\ rl = NoLimit /\ cleaner = NoSweep
  /\ cli \in { [ NoRun EXCEPT !.lines = l, !.phase = "scan" ] : l \in SeqsUpTo(Lines, MaxLines) }

runFrame == << task, result, iterations, history, historyTTL, doneSig, queue,
               workspace, nextId, pc, us, wt, wfail, cancelAt, deadline, stopped,
               cancels, activeCount, creq, bp, sse, hooks, wh, cleaner, rl >>

\* ClaudeRunner.Run: one round of "for scanner.Scan()".
Scan ==
  /\ cli.phase = "scan"
  /\ cli.pos < Len(cli.lines)
  /\ LET line == cli.lines[cli.pos + 1]
         data == extractStreamData(line)
     IN cli' = IF line.type = "empty"
               THEN [ cli EXCEPT !.pos = @ + 1 ]
               ELSE [ cli EXCEPT !.pos = @ + 1,
                                 !.resultText = IF data.resultText # << >>
                                                THEN data.resultText ELSE @,
                                 !.lastAssistantText = IF data.assistantText # << >>
                                                       THEN data.assistantText ELSE @ ]
  /\ UNCHANGED runFrame

\* ClaudeRunner.Run: cmd.Wait and the RunResult; an exit code other than 0
\* is returned as an error together with the result.
Wait ==
  /\ cli.phase = "scan"
  /\ cli.pos = Len(cli.lines)
  /\ \E code \in { 0, 1 } :
       cli' = [ cli EXCEPT !.phase = "done",
                           !.exit = code,
                           !.output = IF cli.resultText = << >>
                                      THEN cli.lastAssistantText ELSE cli.resultText,
                           !.err = code # 0 ]
  /\ UNCHANGED runFrame

NextRun == Scan \/ Wait

\* Runs of the CLI on every bounded output.
SpecRun == InitRun /\ [][NextRun]_vars

\* ---------------------------------------------------------------- properties
\* The transition table as the specification states it: next is in the
\* allowed set of s.
TableAllows(s, next) ==
  \/ s = "pending" /\ next \in { "cloning", "failed" }
  \/ s = "cloning" /\ next \in { "running", "failed" }
  \/ s = "running" /\ next \in { "completed", "failed" }
  \/ s = "completed" /\ next \in { "awaiting_instruction", "creating_pr" }
  \/ s = "awaiting_instruction" /\ next \in { "running", "failed" }
  \/ s = "creating_pr" /\ next \in { "pr_created", "failed" }
  \/ s = "pr_created" /\ next \in { "awaiting_instruction", "completed" }

\* Number of occurrences of x in the sequence seq.
Count(seq, x) == Cardinality({ i \in DOMAIN seq : seq[i] = x })

\* The worker's snapshot is of the iteration the task record is in.
SameIteration(w) == task[wt[w].id].iteration = wt[w].iteration

\* C1: an UpdateStatus(id, next) call that reads the stored status s is
\* rejected as an invalid transition, the record left as it is, exactly when
\* next is not in the allowed set of s in the table; a call that succeeds has
\* next in the allowed set of the s it read and stores next; a call that
\* fails leaves the record unchanged.
C1_UpdateStatusContract ==
  [][ \A p \in Procs :
        LET c == us[p]
        IN /\ (pc[p] = "us_read" /\ pc'[p] # "us_read") =>
                /\ task' = task
                /\ (~CtxDone(p, c.ctx) /\ task[c.id].status \in ValidStatuses) =>
                     IF TableAllows(task[c.id].status, c.next)
                     THEN pc'[p] = "us_write" /\ us'[p].cur = task[c.id].status
                     ELSE us'[p].res = "invalid_transition" /\ pc'[p] = c.err
           /\ (pc[p] = "us_write" /\ pc'[p] # "us_write") =>
                IF us'[p].res = "ok"
                THEN /\ TableAllows(c.cur, c.next)
                     /\ task'[c.id].status = c.next
                     /\ \A i \in Ids \ { c.id } : task'[i] = task[i]
                ELSE task' = task ]_vars

\* C1, witness: a call has been rejected as an invalid transition and the
\* record still holds the status it read.
C1_Rejected ==
  \E p \in Procs : /\ us[p].res = "invalid_transition"
                   /\ task[us[p].id].status = us[p].cur
                   /\ ~TableAllows(us[p].cur, us[p].next)

\* C2: under any interleaving every change of a stored status is an allowed
\* transition of the table (the first write of a record, by Create, is to
\* pending).
C2_EveryChangeAllowed ==
  [][ \A id \in Ids :
        task'[id].status # task[id].status =>
          \/ task[id].status = StatusNone /\ task'[id].status = StatusPending
          \/ TableAllows(task[id].status, task'[id].status) ]_vars

\* C3: once the stored status is failed it never changes again.
C3_FailedIsFinal ==
  [][ \A id \in Ids :
        task[id].status = StatusFailed => task'[id].status = StatusFailed ]_vars

\* C4: when the executor returns, the stored status of the task it was handed
\* (still in the iteration it executed) is not pending, cloning or running.
C4_ExecutorEndsFinished ==
  \A w \in Workers :
    (pc[w] = "dereg" /\ SameIteration(w)) =>
      task[wt[w].id].status \notin { StatusPending, StatusCloning, StatusRunning }

\* C5: a cancel fired on an execution while the stored status was running:
\* by the time the executor returns, the stored status is failed and the error
\* is "cancelled by user".
C5_CancelRunningFails ==
  \A w \in Workers :
    (pc[w] = "dereg" /\ cancelAt[w] = StatusRunning /\ SameIteration(w)) =>
      /\ task[wt[w].id].status = StatusFailed
      /\ task[wt[w].id].error = "cancelled by user"

\* C6: when the executor returns from failTask, the whole fail-path tail has
\* taken effect: status failed, the error string stored, a failed iteration
\* record appended, system.task_failed in the history, a done signal with
\* status failed published.
C6_FailTailCompletes ==
  \A w \in Workers :
    (pc[w] = "dereg" /\ wfail[w] # NoFail /\ SameIteration(w)) =>
      LET id == wt[w].id
      IN /\ task[id].status = StatusFailed
         /\ task[id].error = wfail[w].msg
         /\ \E i \in DOMAIN iterations[id] :
              iterations[id][i] = [ number |-> wt[w].iteration, status |-> StatusFailed ]
         /\ \E i \in DOMAIN history[id] : history[id][i] = "system.task_failed"
         /\ \E i \in DOMAIN doneSig[id] : doneSig[id][i] = StatusFailed

\* C7: at any moment at most one worker is inside the executor for a given
\* task id.
C7_OneWorkerPerTask ==
  \A v, w \in Workers :
    (v # w /\ pc[v] \in ExecLabels /\ pc[w] \in ExecLabels) => wt[v].id # wt[w].id

\* C8: a task whose stored status is running has no TTL on its state record.
C8_RunningHasNoTTL ==
  \A id \in Ids : task[id].status = StatusRunning => ~task[id].ttl

\* C9: when the executor returns and the stored status is finished, the state
\* record carries its TTL, the result blob (if one was stored) carries its
\* TTL and the history (if any event was appended) carries its TTL.
C9_FinishedHasTTLs ==
  \A w \in Workers :
    (pc[w] = "dereg" /\ IsFinished(task[wt[w].id].status)) =>
      LET id == wt[w].id
      IN /\ task[id].ttl
         /\ result[id].set => result[id].ttl
         /\ history[id] # << >> => historyTTL[id]

\* C10: the step that mints an id writes its record (pending, iteration 1, no
\* TTL) and puts the id into the queue exactly once, in that one step; every
\* id in the queue and every id a worker dequeues has its record.
C10_CreateAtomic ==
  [][ /\ nextId' # nextId =>
           /\ task[nextId'].status = StatusNone
           /\ task'[nextId'].status = StatusPending
           /\ task'[nextId'].iteration = 1
           /\ ~task'[nextId'].ttl
           /\ Count(queue, nextId') = 0
           /\ Count(queue', nextId') = 1
      /\ \A w \in Workers :
           (pc[w] = "pop" /\ pc'[w] = "load") => task'[wt'[w].id].status # StatusNone
      /\ \A id \in Ids : Count(queue', id) > 0 => task'[id].status # StatusNone ]_vars

\* C10, witness: Create has acted: a pending record of iteration 1 without
\* TTL whose id is in the queue once.
C10_Created ==
  \E id \in Ids : /\ task[id].status = StatusPending
                  /\ task[id].iteration = 1
                  /\ ~task[id].ttl
                  /\ Count(queue, id) = 1

\* The statuses in which Instruct is accepted.
InstructAccepts == { StatusAwaitingInstruction, StatusCompleted, StatusPRCreated }

\* C11: an Instruct request goes past its status gate only if the stored
\* status is awaiting_instruction, completed or pr_created; on cloning,
\* running or creating_pr the gate answers conflict, on failed a distinct
\* error, and a request the gate rejects leaves the task records and the queue
\* as they are.
C11_InstructGate ==
  [][ \A c \in Clients :
        (pc[c] = "idle" /\ creq'[c].op = "instruct") =>
          LET s == task[creq'[c].id].status
          IN IF s \in InstructAccepts
             THEN creq'[c].resp = "none" /\ pc'[c] = "us_read"
             ELSE /\ pc'[c] = "ret"
                  /\ task' = task
                  /\ queue' = queue
                  /\ s \in { StatusCloning, StatusRunning, StatusCreatingPR } =>
                       creq'[c].resp = "conflict"
                  /\ s = StatusFailed => creq'[c].resp = "task_failed"
                  /\ creq'[c].resp \notin { "none", "conflict" } \/ s # StatusFailed ]_vars

\* C11, witness: an Instruct on a failed task has been answered with the
\* distinct error.
C11_RejectedFailed ==
  \E c \in Clients : /\ creq[c].op = "instruct"
                     /\ creq[c].resp = "task_failed"
                     /\ task[creq[c].id].status = StatusFailed

\* C12: the step that completes a successful Instruct raises the stored
\* iteration counter by exactly 1, leaves the stored status running and adds
\* the id to the queue once; no other step changes the counter, which is at
\* least 1 for every record and never decreases.
C12_InstructAddsOne ==
  [][ /\ \A c \in Clients :
           (pc[c] = "i_commit" /\ pc'[c] = "ret") =>
             LET id == creq[c].id
             IN /\ task'[id].iteration = task[id].iteration + 1
                /\ task'[id].status = StatusRunning
                /\ queue' = Append(queue, id)
      /\ \A id \in Ids :
           /\ task'[id].status # StatusNone => task'[id].iteration >= 1
           /\ task'[id].iteration >= task[id].iteration
           /\ (task[id].status # StatusNone /\ task'[id].iteration # task[id].iteration) =>
                \E c \in Clients : pc[c] = "i_commit" /\ pc'[c] = "ret" /\ creq[c].id = id
    ]_vars

\* C13: the iteration list of a task holds its records in increasing
\* iteration number, and when the executor returns from an iteration that has
\* ended completed or failed the list holds exactly one record of it.
C13_IterationRecordsInOrder ==
  /\ \A id \in Ids :
       \A i, j \in DOMAIN iterations[id] :
         i < j => iterations[id][i].number < iterations[id][j].number
  /\ \A w \in Workers :
       (/\ pc[w] = "dereg"
        /\ SameIteration(w)
        /\ task[wt[w].id].status \in { StatusCompleted, StatusFailed }) =>
         Cardinality({ i \in DOMAIN iterations[wt[w].id] :
                         iterations[wt[w].id][i].number = wt[w].iteration }) = 1

\* The done signal with status completed of worker w's iteration is published
\* in this step.
DoneCompletedPublished(w) ==
  /\ pc[w] = "emit_done"
  /\ pc'[w] = "webhook"
  /\ doneSig'[wt[w].id] = Append(doneSig[wt[w].id], StatusCompleted)

\* C14: when the done signal with status completed of an iteration is
\* published, the result blob of that iteration is stored, this execution has
\* set the status to completed, the iteration record of that iteration is in
\* the list and result.task_completed is in the history.
C14_DoneAfterResult ==
  [][ \A w \in Workers :
        DoneCompletedPublished(w) =>
          LET id == wt[w].id
          IN /\ result[id].set /\ result[id].iteration = wt[w].iteration
             /\ us[w].next = StatusCompleted /\ us[w].res = "ok"
             /\ \E i \in DOMAIN iterations[id] :
                  iterations[id][i] = [ number |-> wt[w].iteration,
                                        status |-> StatusCompleted ]
             /\ \E i \in DOMAIN history[id] : history[id][i] = "result.task_completed"
    ]_vars

\* C15: when the deadline of an iteration has expired before the iteration
\* finished (and no cancel was fired), the executor returns with the task
\* failed, the error "task timed out" stored and system.task_timeout in the
\* history before system.task_failed.
C15_DeadlineReportedAsTimeout ==
  \A w \in Workers :
    (pc[w] = "dereg" /\ deadline[w] /\ ~Cancelled(w)) =>
      LET id == wt[w].id
      IN /\ task[id].status = StatusFailed
         /\ task[id].error = "task timed out"
         /\ \E i, j \in DOMAIN history[id] :
              /\ i < j
              /\ history[id][i] = "system.task_timeout"
              /\ history[id][j] = "system.task_failed"

\* The positions of a worker inside cloneStep.
CloneLabels == { "clone_started", "clone", "clone_completed" }

\* C16: an execution of an iteration greater than 1 that finds its workspace
\* directory reuses it, and from then on none of its steps requests the
\* status cloning, enters the clone step, stores the status cloning or adds a
\* git.clone_started event to the task's history.
C16_ReuseDoesNotClone ==
  [][ \A w \in Workers :
        /\ (pc[w] = "exec" /\ pc'[w] # "exec") =>
             (wt'[w].reuse <=> (wt[w].iteration > 1 /\ workspace[wt[w].id]))
        /\ (wt'[w].reuse /\ pc'[w] # pc[w]) =>
             LET id == wt'[w].id
             IN /\ pc'[w] \notin CloneLabels
                /\ ~(pc'[w] = "us_read" /\ us'[w].next = StatusCloning)
                /\ task'[id].status = StatusCloning => task[id].status = StatusCloning
                /\ Count(history'[id], "git.clone_started")
                     = Count(history[id], "git.clone_started") ]_vars

\* C16, witness: an execution of iteration 2 that reused the workspace has
\* run the CLI to the end.
C16_ReusedAndRan ==
  \E w \in Workers : wt[w].reuse /\ wt[w].iteration > 1 /\ pc[w] = "set_result"

\* C17: an execution of an iteration greater than 1 that finds its workspace
\* directory missing re-clones: its request for the status cloning is not
\* turned down as an invalid transition, so that the clone and the CLI run.
C17_RecloneProceeds ==
  \A w \in Workers :
    (wt[w].iteration > 1 /\ pc[w] = "f_error" /\ us[w].next = StatusCloning) =>
      us[w].res # "invalid_transition"

\* The numbers of the stored iterations that a built prompt leaves out.
LeftOut == { k \in DOMAIN bp.iterations : \A i \in DOMAIN bp.out.entries : bp.out.entries[i] # k }

\* C18: the prompt built for an iteration >= 2 with stored iterations has the
\* header, the summaries of prior iterations in increasing order and the
\* current instruction; the summaries it includes stay within 50,000
\* characters, and the ones it leaves out are older than every one it includes.
C18_OldestLeftOut ==
  (bp.out # NoPrompt /\ bp.t.iteration >= 2 /\ ~bp.err /\ Len(bp.iterations) > 0) =>
    /\ bp.out.header
    /\ bp.out.instruction # ""
    /\ \A i, j \in DOMAIN bp.out.entries : i < j => bp.out.entries[i] < bp.out.entries[j]
    /\ bp.out.chars <= 50000
    /\ \A m \in LeftOut : \A i \in DOMAIN bp.out.entries : m < bp.out.entries[i]

\* C19: the history list of a task holds the events in the order of their
\* emission: an emission adds its event behind all the events emitted before
\* it and changes nothing of them.
C19_HistoryInEmissionOrder ==
  [][ \A id \in Ids :
        history'[id] # history[id] =>
          /\ Len(history'[id]) = Len(history[id]) + 1
          /\ SubSeq(history'[id], 1, Len(history[id])) = history[id] ]_vars

\* C19, witness: the executor has emitted the events of a whole execution.
C19_ManyEvents ==
  \E id \in Ids : Len(history[id]) >= 4

LiveEvents == SubSeq(sse.got, sse.replayed + 1, Len(sse.got))

\* C21: a request whose subscription was made before the task's first event
\* writes the live data events in the order of the history list: what it has
\* written from the subscription is the beginning of the history.
C21_LiveInHistoryOrder ==
  (sse.subAt = 0 /\ sse.pc \in { "live", "closed" }) =>
    /\ Len(LiveEvents) <= Len(history[sse.id])
    /\ LiveEvents = SubSeq(history[sse.id], 1, Len(LiveEvents))

\* C21, witness: such a request has written three live events.
C21_ThreeLive ==
  sse.subAt = 0 /\ sse.replayed = 0 /\ Len(LiveEvents) >= 3

\* C22: a request that found the task finished is never subscribed, never
\* waits in the live loop and writes no keepalive; when it returns it has
\* written exactly the connected event, then the whole history as data
\* events, then a done event with the status it found.
C22_FinishedTaskReplayOnly ==
  [][ (IsFinished(sse'.status) /\ sse'.pc # "idle") =>
        /\ ~sse'.sub /\ sse'.ch = << >> /\ ~sse'.keepalive /\ sse'.pc # "live"
        /\ (sse'.pc = "closed" /\ sse.pc # "closed") =>
             /\ sse'.got = history[sse.id]
             /\ sse'.named = << [ event |-> "connected", status |-> sse.status, at |-> 0 ],
                                [ event |-> "done", status |-> sse.status,
                                  at |-> Len(history[sse.id]) ] >>
             /\ sse'.end = "terminal" ]_vars

\* C22, witness: a request on a finished task has returned after a replay of
\* several events.
C22_ReplayedAndClosed ==
  IsFinished(sse.status) /\ sse.pc = "closed" /\ Len(sse.got) >= 3

\* C23: as long as the stored status of a task is not finished, its history
\* list keeps every event appended to it (each of which was published on the
\* live channel in the same pipeline): a step leaves the list as it is or
\* longer.
C23_HistoryKeptWhileNotFinished ==
  [][ \A id \in Ids :
        (task[id].status # StatusNone /\ ~IsFinished(task[id].status)) =>
          /\ Len(history'[id]) >= Len(history[id])
          /\ SubSeq(history'[id], 1, Len(history[id])) = history[id] ]_vars

\* C28: a worker whose Get finds no record for the id it dequeued skips the
\* id: the id is not pushed back, the executor is not entered (no cancel
\* func, no change of the store), the active-worker count is again the number
\* of workers holding an id, and the worker is back at the dequeue.
C28_UnknownIdSkipped ==
  [][ \A w \in Workers :
        (pc[w] = "load" /\ pc'[w] # "load" /\ task[wt[w].id].status = StatusNone) =>
          /\ queue' = queue
          /\ pc'[w] = "pop"
          /\ activeCount' = activeCount - 1
          /\ activeCount' = Cardinality({ v \in Workers : pc'[v] # "pop" })
          /\ UNCHANGED << cancels, task, result, iterations, history, doneSig, workspace >>
    ]_vars

\* C28, witness: a worker has dequeued an id whose record is gone while
\* the other worker waits on the queue.
C28_DequeuedUnknownId ==
  \E w \in Workers :
    /\ pc[w] = "load"
    /\ task[wt[w].id].status = StatusNone
    /\ activeCount = 1

\* C24: a create-pr request goes past its gates only on a task whose stored
\* status is completed and whose changes summary has a changed file; on any
\* other status it is answered 409, on a completed task without changes 400,
\* and a rejected request only returns: the task record, the workspace and
\* the queue stay as they are.
C24_CreatePRGate ==
  [][ \A c \in Clients :
        (pc[c] = "idle" /\ creq'[c].op = "create_pr") =>
          LET t == task[creq'[c].id]
          IN IF t.status = StatusCompleted /\ t.changes
             THEN /\ creq'[c].resp = "none"
                  /\ pc'[c] = "us_read"
                  /\ us'[c].next = StatusCreatingPR
             ELSE /\ pc'[c] = "ret"
                  /\ creq'[c].resp = IF t.status # StatusCompleted THEN "409" ELSE "400"
                  /\ UNCHANGED << task, workspace, queue >> ]_vars

\* C24, witness: a create-pr request on a completed task without changes has
\* been answered 400.
C24_RejectedNoChanges ==
  \E c \in Clients : /\ creq[c].op = "create_pr"
                     /\ creq[c].resp = "400"
                     /\ task[creq[c].id].status = StatusCompleted

\* C25: no task is left in creating_pr by a create-pr request that has ended:
\* while the stored status is creating_pr some create-pr request on the task
\* is still in progress.
C25_CreatingPRHasRequest ==
  \A id \in Ids :
    task[id].status = StatusCreatingPR =>
      \E c \in Clients : creq[c].op = "create_pr" /\ creq[c].id = id /\ pc[c] # "done"

\* C26: the stored status becomes creating_pr or pr_created only by the write
\* of a create-pr request, never by a step of the executor, and the PR fields
\* (branch, PR number) are stored only by a create-pr request that has itself
\* stored creating_pr.
C26_PROnlyOnRequest ==
  [][ \A id \in Ids :
        /\ (task'[id].status # task[id].status
              /\ task'[id].status \in { StatusCreatingPR, StatusPRCreated }) =>
             \E c \in Clients : /\ creq[c].op = "create_pr" /\ creq[c].id = id
                                /\ pc[c] = "us_write" /\ pc'[c] # pc[c]
        /\ (task'[id].pr /\ ~task[id].pr) =>
             \E c \in Clients : /\ creq[c].op = "create_pr" /\ creq[c].id = id
                                /\ pc[c] = "p_git" /\ pc'[c] # pc[c]
                                /\ us[c].next = StatusCreatingPR /\ us[c].res = "ok" ]_vars

\* C26, witness: a create-pr request has stored the PR fields and pr_created.
C26_PRStored ==
  \E id \in Ids : task[id].pr /\ task[id].status = StatusPRCreated

\* C27: the queue is first in, first out: a step that changes it either
\* appends an id behind the ids already queued or hands the id at its head to
\* a worker, so that ids reach the workers in the order of their pushes.
C27_QueueIsFIFO ==
  [][ queue' # queue =>
        \/ \E id \in Ids : queue' = Append(queue, id)
        \/ /\ queue # << >>
           /\ queue' = Tail(queue)
           /\ \E w \in Workers : /\ pc[w] = "pop" /\ pc'[w] = "load"
                                 /\ wt'[w].id = Head(queue) ]_vars

\* C27, witness: of two different ids queued, the one pushed first has been
\* handed to a worker while the other waits.
C27_FirstPushedDequeued ==
  \E w \in Workers :
    /\ pc[w] = "load" /\ wt[w].id = 1
    /\ Len(queue) >= 1 /\ queue[1] = 2
    /\ task[2].iteration = 1

\* C29: the cancel registry holds a handle for a task id exactly while a
\* worker is between the registration and the deregistration around its
\* executor run for that id, and then the handle is the one of such a worker.
C29_RegistryMatchesExecutions ==
  \A id \in Ids :
    LET executing == { w \in Workers : pc[w] \notin { "pop", "load" } /\ wt[w].id = id }
    IN /\ cancels[id] # NoWorker <=> executing # { }
       /\ cancels[id] # NoWorker => cancels[id] \in executing

C31_OneSendWithStoredStatus ==
  \A id \in Ids :
    LET sends == hooks[id].sends
    IN /\ ~hooks[id].url => sends = << >>
       /\ \A k \in DOMAIN sends :
            \/ sends[k].status = sends[k].stored
            \/ /\ sends[k].status = StatusCompleted
               /\ sends[k].stored \in { StatusCreatingPR, StatusPRCreated, StatusFailed }
       /\ \A j, k \in DOMAIN sends : sends[j].iteration = sends[k].iteration => j = k
       /\ \A w \in Workers :
            ( /\ pc[w] = "dereg"
              /\ wt[w].id = id
              /\ hooks[id].url
              /\ task[id].status \in { StatusCompleted, StatusFailed } ) =>
            \E k \in DOMAIN sends : sends[k].iteration = wt[w].iteration

\* C32: in every interval of one window length at most Limit submissions of
\* the token are admitted.
C32_AtMostLimitPerWindow ==
  \A t \in 0..MaxNow :
    Cardinality({ k \in DOMAIN rl.admitted :
                   rl.admitted[k] >= t /\ rl.admitted[k] < t + Window }) <= Limit

\* The result text of the final result event; empty when there is none.
RECURSIVE FinalResultText(_)
FinalResultText(lines) ==
  IF lines = << >>
  THEN << >>
  ELSE IF lines[Len(lines)].type = "result"
       THEN lines[Len(lines)].result
       ELSE FinalResultText(SubSeq(lines, 1, Len(lines) - 1))

\* The text of the latest assistant message that has text; empty when there
\* is none.
RECURSIVE LatestAssistantText(_)
LatestAssistantText(lines) ==
  IF lines = << >>
  THEN << >>
  ELSE IF /\ lines[Len(lines)].type = "assistant"
          /\ ConcatText(lines[Len(lines)].content) # << >>
       THEN ConcatText(lines[Len(lines)].content)
       ELSE LatestAssistantText(SubSeq(lines, 1, Len(lines) - 1))

\* C33: the output of a run is the text of the final result event when that
\* is not empty and the text of the latest assistant message otherwise; a
\* run without any event and exit code 0 has an empty output and no error.
C33_OutputOfFinalResult ==
  cli.phase = "done" =>
    /\ cli.output = IF FinalResultText(cli.lines) # << >>
                    THEN FinalResultText(cli.lines)
                    ELSE LatestAssistantText(cli.lines)
    /\ (cli.lines = << >> /\ cli.exit = 0) => (cli.output = << >> /\ ~cli.err)

\* C34: when a task has failed with "cancelled by user", the
\* system.task_failed event in its history is preceded by a
\* system.task_cancelled event.
C34_CancelledBeforeFailed ==
  \A id \in Ids :
    \A k \in DOMAIN history[id] :
      ( /\ task[id].error = "cancelled by user"
        /\ history[id][k] = "system.task_failed" ) =>
      \E j \in 1..(k - 1) : history[id][j] = "system.task_cancelled"

\* C35: a stream handler that found the task not finished never waits in its
\* live loop with nothing to forward once the task is finished and its done
\* signal has been published: the done message is in its subscription.
C35_DoneReachesLiveClient ==
  ~ ( /\ sse.pc = "live"
      /\ sse.ch = << >>
      /\ doneSig[sse.id] # << >>
      /\ isTerminal(task[sse.id].status) )

\* C36: no two create-pr requests for the same task are both past the
\* transition to creating_pr, at the branch, push and provider call.
C36_OneCreatePRProceeds ==
  \A c, d \in Clients :
    ( /\ pc[c] = "p_git"
      /\ pc[d] = "p_git"
      /\ creq[c].id = creq[d].id ) => c = d

\* C37: an id is never in the queue twice: of two Instruct requests for a
\* task only one is accepted and enqueues the id.
C37_InstructEnqueuesOnce ==
  \A i, j \in DOMAIN queue : queue[i] = queue[j] => i = j

\* C38: the id of a pending task is in the queue or in the hands of a worker
\* that popped it: it is never dropped.
C38_PendingTaskNotDropped ==
  \A id \in Created :
    task[id].status = StatusPending =>
      \/ \E i \in DOMAIN queue : queue[i] = id
      \/ \E w \in Workers : wt[w].id = id

\* C39: the error of a task becomes "cancelled by user" only in an execution
\* whose cancel func Pool.Cancel has called.
C39_CancelledOnlyByCancel ==
  [][ \A id \in Ids :
        ( /\ task'[id].error = "cancelled by user"
          /\ task[id].error # "cancelled by user" ) =>
        \E w \in Workers : wt[w].id = id /\ cancelAt[w] # StatusNone ]_vars

\* C40: no step deletes the workspace directory of a task that is cloning,
\* running or creating_pr.
C40_NoDeleteWhileInUse ==
  [][ \A id \in Ids :
        ( workspace[id] /\ ~workspace'[id] ) =>
        task[id].status \notin { StatusCloning, StatusRunning, StatusCreatingPR } ]_vars

====
